---- MODULE Spec2Model ----
(***************************************************************************)
(* Model of the snapshot-testing harness tests/snapshots/test_snapshots.py *)
(* One invocation of test_snapshots(run_type) is followed step by step:    *)
(* case discovery or creation, mock-data staging in the database, the      *)
(* model run, mock-data removal, output capture or comparison, and the     *)
(* removal of the transient Outputs/ folder.                               *)
(*                                                                         *)
(* Encoding                                                                *)
(*   - a case directory "Case<digits>" is the sequence of its digits       *)
(*     ("Case01" is <<0, 1>>, "Case1" is <<1>>);                           *)
(*   - a file tree is a function from relative paths to file contents; a   *)
(*     relative path is [dir, stem, suffix]; a folder is [exists, files]   *)
(*     and NoDir is a missing folder;                                      *)
(*   - a file content is [keys, val]: the column / member names and one    *)
(*     numeric value in units of 1e-8;                                     *)
(*   - a database table is [base, ts]: "<base>_<unix-timestamp-ms>".       *)
(***************************************************************************)
EXTENDS Integers, Sequences, FiniteSets, TLC

\* ------------------------------------------------------------------ bounds
MaxCase == 3
MaxTables == 2
MaxTimestamp == 2
MaxVal == 2
MaxFiles == 1

\* ------------------------------------------------------- program constants
\* ABSOLUTE_TOLERANCE = 1e-8, in the unit of file values (1e-8)
ABSOLUTE_TOLERANCE == 1
RELATIVE_TOLERANCE == 0
extensions_to_ignore == {".html"}
accepted_run_types == {"compare", "update", "create"}

EmptyTree == <<>>
Folder(t) == [exists |-> TRUE, files |-> t]
NoDir == [exists |-> FALSE, files |-> EmptyTree]

\* ------------------------------------------------------------ file trees
Paths ==
  { [dir |-> <<>>, stem |-> "df", suffix |-> ".csv"],
    [dir |-> <<"sub">>, stem |-> "cfg", suffix |-> ".json"],
    [dir |-> <<>>, stem |-> "arr", suffix |-> ".npz"],
    [dir |-> <<"sub">>, stem |-> "report", suffix |-> ".html"],
    [dir |-> <<>>, stem |-> "notes", suffix |-> ".txt"] }

\* The contents a file of the model takes: numeric files take every value,
\* the archive also a second member set; the content of the other files is
\* never read
Contents(p) ==
  IF p.suffix \in {".csv", ".json", ".npz"}
  THEN { [keys |-> {"a"}, val |-> v] : v \in 0..MaxVal }
         \cup (IF p.suffix = ".npz" THEN { [keys |-> {"a", "b"}, val |-> 0] } ELSE {})
  ELSE { [keys |-> {"a"}, val |-> 0] }

Trees ==
  UNION { { t \in [S -> UNION { Contents(p) : p \in S }] :
              \A p \in S : t[p] \in Contents(p) } :
          S \in { T \in SUBSET Paths : Cardinality(T) <= MaxFiles } }

\* Writing the files of `written` into an existing or missing folder
\* (mkdir(parents=True, exist_ok=True) followed by file writes).
WriteFiles(folder, written) ==
  IF ~written.exists THEN folder
  ELSE Folder(written.files @@ folder.files)

\* ------------------------------------------------------- case directories
Abs(x) == IF x < 0 THEN -x ELSE x
MinOf(S) == CHOOSE x \in S : \A y \in S : x <= y
MaxOf(S) == CHOOSE x \in S : \A y \in S : y <= x

RECURSIVE ParseCaseNumber(_)
\* int(c.name[4:])
ParseCaseNumber(name) ==
  IF Len(name) = 0 THEN 0
  ELSE 10 * ParseCaseNumber(SubSeq(name, 1, Len(name) - 1)) + name[Len(name)]

RECURSIVE Digits(_)
Digits(k) == IF k < 10 THEN <<k>> ELSE Append(Digits(k \div 10), k % 10)

\* f"Case{new_case_number:02d}"
FormatCaseName(k) == IF k < 10 THEN <<0, k>> ELSE Digits(k)

\* Order of the names "Case<digits>" as strings
LexLess(a, b) ==
  \/ Len(a) < Len(b) /\ a = SubSeq(b, 1, Len(a))
  \/ \E i \in 1..Len(a) :
       /\ i <= Len(b)
       /\ SubSeq(a, 1, i - 1) = SubSeq(b, 1, i - 1)
       /\ a[i] < b[i]

RECURSIVE SortNames(_)
SortNames(S) ==
  IF S = {} THEN <<>>
  ELSE LET m == CHOOSE x \in S : \A y \in S \ {x} : LexLess(x, y)
       IN <<m>> \o SortNames(S \ {m})

\* find_cases(): the case directories, sorted
find_cases(f) == SortNames(DOMAIN f)

Range(s) == { s[i] : i \in 1..Len(s) }

\* max+1 numbering: a plausible slip of the gap-filling rule
NewCaseNumber_maxPlusOne(case_numbers) ==
  (IF case_numbers # {} THEN MaxOf(case_numbers) ELSE 0) + 1

\* create_new_case_folder(): the number of the new case
NewCaseNumber(case_numbers) ==
  LET max_case_number == IF case_numbers # {} THEN MaxOf(case_numbers) ELSE 0
  IN MinOf({ c \in 1..(max_case_number + 1) : c \notin case_numbers })

\* An Inputs folder: [exists, hasDb, manifest]; hasDb says that the _Database
\* sub-folder exists and manifest lists the table_name of each entry of
\* _Database.json
NoInputs == [exists |-> FALSE, hasDb |-> FALSE, manifest |-> <<>>]

EmptyCase == [inputs |-> NoInputs, expected |-> NoDir, outputs |-> NoDir]

\* create_new_case_folder(): the directory of the new case
new_case_dir(f) ==
  FormatCaseName(NewCaseNumber({ ParseCaseNumber(c) : c \in DOMAIN f }))

\* new_case_dir.mkdir(parents=True, exist_ok=True)
MkCaseDir(f, name) == IF name \in DOMAIN f THEN f ELSE (name :> EmptyCase) @@ f

\* ---------------------------------------------------------------- database
Manifest(n) == [i \in 1..n |-> i]
InputsFolders ==
  { [exists |-> TRUE, hasDb |-> FALSE, manifest |-> <<>>] }
    \cup { [exists |-> TRUE, hasDb |-> TRUE, manifest |-> Manifest(n)] :
             n \in 0..MaxTables }

\* table_name = f"{d['table_name']}_{timestamp_unix}"
TableName(base, timestamp_unix) == [base |-> base, ts |-> timestamp_unix]

\* a cleanup that misses the last table of the list
RemoveMockData_skipLast(d, names) ==
  d \ { names[i] : i \in 1..(Len(names) - 1) }

\* remove_mock_data_from_db(table_names)
RemoveMockData(d, names) == d \ Range(names)

\* ----------------------------------------------------------- copy_outputs
\* copy_outputs without the clearing of the destination folder
CopyOutputs_keepOld(src, dst) ==
  LET kept == { p \in DOMAIN src.files : p.suffix \notin extensions_to_ignore }
  IN Folder([p \in kept |-> src.files[p]] @@ dst.files)

\* copy_outputs(src, dst) on an existing dst: the content of dst afterwards
CopyOutputs(src, dst) ==
  LET cleared == EmptyTree
      kept == { p \in DOMAIN src.files : p.suffix \notin extensions_to_ignore }
  IN Folder([p \in kept |-> src.files[p]] @@ cleared)

\* ------------------------------------------------------------ assert_file
\* |actual - desired| <= atol + rtol * |desired|
IsClose(actual, desired) ==
  Abs(actual - desired) <= ABSOLUTE_TOLERANCE + RELATIVE_TOLERANCE * Abs(desired)

Missing(out, p) == p \notin DOMAIN out.files

assert_csv(out, exp, p) ==
  IF Missing(out, p) THEN "FileNotFoundError"
  ELSE IF out.files[p].keys = exp.files[p].keys /\ IsClose(out.files[p].val, exp.files[p].val) THEN "ok"
  ELSE "AssertionError"

assert_json(out, exp, p) ==
  IF Missing(out, p) THEN "FileNotFoundError"
  ELSE IF out.files[p] = exp.files[p] THEN "ok"
  ELSE "AssertionError"

assert_npz(out, exp, p) ==
  IF Missing(out, p) THEN "FileNotFoundError"
  ELSE IF out.files[p].keys # exp.files[p].keys THEN "KeyError"
  ELSE IF IsClose(out.files[p].val, exp.files[p].val) THEN "ok"
  ELSE "AssertionError"

\* an assert_file that does not open the actual .csv file
assert_file_csvUnchecked(out, exp, p) ==
  IF p.suffix = ".csv" THEN "ok"
  ELSE IF p.suffix = ".json" THEN assert_json(out, exp, p)
  ELSE IF p.suffix = ".npz" THEN assert_npz(out, exp, p)
  ELSE IF p.suffix = ".html" THEN "ok"
  ELSE "ValueError"

\* assert_file(output_file_dir, expected_output_file_dir): "ok" or the error
assert_file(out, exp, p) ==
  IF p.suffix = ".csv" THEN assert_csv(out, exp, p)
  ELSE IF p.suffix = ".json" THEN assert_json(out, exp, p)
  ELSE IF p.suffix = ".npz" THEN assert_npz(out, exp, p)
  ELSE IF p.suffix = ".html" THEN "ok"
  ELSE "ValueError"

IsProperPrefix(a, b) == Len(a) < Len(b) /\ a = SubSeq(b, 1, Len(a))

\* The expected files on which assert_file raises
FailingFiles(out, exp) ==
  { p \in DOMAIN exp.files : assert_file(out, exp, p) # "ok" }

\* os.walk is top-down: the first failing file met has no failing file in a
\* folder above its own
FirstFailures(out, exp) ==
  { p \in FailingFiles(out, exp) :
      \A q \in FailingFiles(out, exp) : ~IsProperPrefix(q.dir, p.dir) }

\* ------------------------------------------------------------------ state
VARIABLES
  fs,             \* the Cases folder: case name -> [inputs, expected, outputs]
  projectInputs,  \* the project's Inputs folder (NoDir when missing)
  db,             \* tables present in schema SNAP
  run_type,       \* argument of test_snapshots
  pc,             \* position in test_snapshots
  cases,          \* the list test_snapshots iterates over
  idx,            \* index of the current case in cases
  cwd,            \* current working directory (a case name; <<>> elsewhere)
  mock_data,      \* dump_mock_data_in_db: the prepared table names
  table_names,    \* tables inserted for the current case
  removeCalls,    \* calls of remove_mock_data_from_db in the current case run
  modelCalls,     \* calls of main_model() in the current case run
  err,            \* the exception that reached the caller
  fs0,            \* the Cases folder when test_snapshots was called
  model           \* what main_model() does when run: [ok, out]

vars == <<fs, projectInputs, db, run_type, pc, cases, idx, cwd, mock_data,
          table_names, removeCalls, modelCalls, err, fs0, model>>

NoErr == "none"

InitCaseNames ==
  { <<k>> : k \in 1..MaxCase } \cup { <<0, k>> : k \in 1..MaxCase }

\* At most one directory per case number
CaseLayouts ==
  { S \in SUBSET InitCaseNames :
      \A a, b \in S : ParseCaseNumber(a) = ParseCaseNumber(b) => a = b }

Folders == { Folder(t) : t \in Trees } \cup {NoDir}

\* main_model() returns after writing a tree under Outputs/, or raises after
\* writing a partial tree or nothing
ModelOutcomes ==
  { [ok |-> TRUE, out |-> Folder(t)] : t \in Trees }
    \cup { [ok |-> FALSE, out |-> f] : f \in Folders }

InitCommon ==
  /\ db = {}
  /\ run_type = "none"
  /\ pc = "idle"
  /\ cases = <<>>
  /\ idx = 0
  /\ cwd = <<>>
  /\ mock_data = <<>>
  /\ table_names = <<>>
  /\ removeCalls = 0
  /\ modelCalls = 0
  /\ err = NoErr
  /\ fs0 = fs

\* The state before test_snapshots is called: no run is in progress, so no
\* Outputs/ folder and no mock table exists. The cases present were populated
\* from the project's Inputs folder, so each has the same Inputs/ (read by
\* compare and update only) as the project (read by create only), and the same
\* ExpectedOutputs/ (missing in a case that a failed create left behind).
\* Either the layout of the Cases folder varies and the files do not ...
InitLayouts ==
  /\ \E names \in CaseLayouts,
        inp \in InputsFolders \cup {NoInputs},
        exp \in {NoDir, Folder(EmptyTree)} :
       /\ fs = [c \in names |-> [inputs |-> inp, expected |-> exp, outputs |-> NoDir]]
       /\ projectInputs = inp
  /\ model \in { o \in ModelOutcomes : o.out.files = EmptyTree }
  /\ InitCommon

\* ... or there is the one case Case01 and the files vary
InitFixtures ==
  /\ \E inp \in InputsFolders \cup {NoInputs}, exp \in Folders :
       /\ fs = [c \in { <<0, 1>> } |->
                  [inputs |-> inp, expected |-> exp, outputs |-> NoDir]]
       /\ projectInputs = inp
  /\ model \in ModelOutcomes
  /\ InitCommon

Init == InitLayouts \/ InitFixtures

cur == cases[idx]

\* test_snapshots: input validation and case discovery (lines 60-72)
Call ==
  /\ pc = "idle"
  /\ \E rt \in accepted_run_types \cup {"bogus"} :
       /\ run_type' = rt
       /\ fs0' = fs
       /\ IF rt \notin accepted_run_types
          THEN /\ pc' = "raised"
               /\ err' = "ValueError(run_type)"
               /\ UNCHANGED <<fs, cases, idx>>
          ELSE IF rt = "create"
          THEN /\ fs' = MkCaseDir(fs, new_case_dir(fs))
               /\ cases' = <<new_case_dir(fs)>>
               /\ idx' = 1
               /\ pc' = "loop"
               /\ UNCHANGED err
          ELSE /\ cases' = find_cases(fs)
               /\ idx' = 1
               /\ pc' = "loop"
               /\ UNCHANGED <<fs, err>>
  /\ UNCHANGED <<projectInputs, db, cwd, mock_data, table_names, removeCalls, modelCalls, model>>

\* test_snapshots: the loop over the cases is exhausted
Finish ==
  /\ pc = "loop"
  /\ idx > Len(cases)
  /\ pc' = "done"
  /\ UNCHANGED <<fs, projectInputs, db, run_type, cases, idx, cwd, mock_data,
                 table_names, removeCalls, modelCalls, err, fs0, model>>

\* test_snapshots lines 74-95 and dump_mock_data_in_db lines 214-244:
\* chdir into the case, read the manifest, prepare the table names
BeginCase ==
  /\ pc = "loop"
  /\ idx <= Len(cases)
  /\ cwd' = cur
  /\ removeCalls' = 0
  /\ modelCalls' = 0
  /\ table_names' = <<>>
  /\ LET inputs == fs[cur].inputs
     IN IF ~inputs.hasDb
        THEN /\ mock_data' = <<>>
             /\ pc' = "after_dump"
        ELSE \E timestamp_unix \in 1..MaxTimestamp :
               /\ mock_data' = [i \in 1..Len(inputs.manifest) |->
                                  TableName(inputs.manifest[i], timestamp_unix)]
               /\ pc' = "add_table"
  /\ UNCHANGED <<fs, projectInputs, db, run_type, cases, idx, err, fs0, model>>

\* dump_mock_data_in_db lines 248-250: one insertion succeeds
AddTableOk ==
  /\ pc = "add_table"
  /\ Len(table_names) < Len(mock_data)
  /\ LET md == mock_data[Len(table_names) + 1]
     IN /\ db' = db \cup {md}
        /\ table_names' = Append(table_names, md)
  /\ UNCHANGED <<fs, projectInputs, run_type, pc, cases, idx, cwd, mock_data,
                 removeCalls, modelCalls, err, fs0, model>>

\* dump_mock_data_in_db lines 249, 251: add_table raises
AddTableFail ==
  /\ pc = "add_table"
  /\ Len(table_names) < Len(mock_data)
  /\ pc' = "rollback"
  /\ UNCHANGED <<fs, projectInputs, db, run_type, cases, idx, cwd, mock_data,
                 table_names, removeCalls, modelCalls, err, fs0, model>>

\* an except branch that re-raises without the rollback
Rollback_noRemove ==
  /\ pc = "rollback"
  /\ pc' = "raised"
  /\ err' = "AddTableError"
  /\ UNCHANGED <<modelCalls, removeCalls, db, fs, projectInputs, run_type, cases,
                 idx, cwd, mock_data, table_names, fs0, model>>

\* dump_mock_data_in_db lines 252-254: remove the inserted tables, re-raise
Rollback ==
  /\ pc = "rollback"
  /\ db' = RemoveMockData(db, table_names)
  /\ removeCalls' = removeCalls + 1
  /\ pc' = "raised"
  /\ err' = "AddTableError"
  /\ UNCHANGED <<modelCalls, fs, projectInputs, run_type, cases, idx, cwd, mock_data,
                 table_names, fs0, model>>

\* dump_mock_data_in_db line 256: every table is inserted
DumpReturn ==
  /\ pc = "add_table"
  /\ Len(table_names) = Len(mock_data)
  /\ pc' = "after_dump"
  /\ UNCHANGED <<fs, projectInputs, db, run_type, cases, idx, cwd, mock_data,
                 table_names, removeCalls, modelCalls, err, fs0, model>>

\* test_snapshots lines 97-99: in create mode, copy the project's Inputs
CopyInputs ==
  /\ pc = "after_dump"
  /\ IF run_type = "create"
     THEN IF ~projectInputs.exists \/ fs[cur].inputs.exists
          THEN /\ pc' = "raised"
               /\ err' = "OSError(copytree)"
               /\ UNCHANGED fs
          ELSE /\ fs' = [fs EXCEPT ![cur].inputs = projectInputs]
               /\ pc' = "run_model"
               /\ UNCHANGED err
     ELSE /\ pc' = "run_model"
          /\ UNCHANGED <<fs, err>>
  /\ UNCHANGED <<projectInputs, db, run_type, cases, idx, cwd, mock_data,
                 table_names, removeCalls, modelCalls, fs0, model>>

\* test_snapshots lines 105-110: main_model() writes under cwd/Outputs and
\* returns or raises
RunModel ==
  /\ pc = "run_model"
  /\ fs' = [fs EXCEPT ![cwd].outputs = WriteFiles(@, model.out)]
  /\ pc' = IF model.ok THEN "else_remove" ELSE "except_remove"
  /\ modelCalls' = modelCalls + 1
  /\ UNCHANGED <<projectInputs, db, run_type, cases, idx, cwd, mock_data,
                 table_names, removeCalls, err, fs0, model>>

\* test_snapshots line 113
ExceptRemove ==
  /\ pc = "except_remove"
  /\ db' = RemoveMockData(db, table_names)
  /\ removeCalls' = removeCalls + 1
  /\ pc' = "except_rmtree"
  /\ UNCHANGED <<modelCalls, fs, projectInputs, run_type, cases, idx, cwd, mock_data,
                 table_names, err, fs0, model>>

\* test_snapshots lines 114-115
ExceptRmtree ==
  /\ pc = "except_rmtree"
  /\ fs' = [fs EXCEPT ![cur].outputs = IF @.exists THEN NoDir ELSE @]
  /\ pc' = "except_raise"
  /\ UNCHANGED <<projectInputs, db, run_type, cases, idx, cwd, mock_data,
                 table_names, removeCalls, modelCalls, err, fs0, model>>

\* test_snapshots line 116
ExceptRaise ==
  /\ pc = "except_raise"
  /\ pc' = "raised"
  /\ err' = "ModelError"
  /\ UNCHANGED <<fs, projectInputs, db, run_type, cases, idx, cwd, mock_data,
                 table_names, removeCalls, modelCalls, fs0, model>>

\* an else branch that forgets the cleanup
ElseRemove_forgotten ==
  /\ pc = "else_remove"
  /\ pc' = "process_outputs"
  /\ UNCHANGED <<fs, projectInputs, db, run_type, cases, idx, cwd, mock_data,
                 table_names, removeCalls, modelCalls, err, fs0, model>>

\* test_snapshots lines 117-119
ElseRemove ==
  /\ pc = "else_remove"
  /\ db' = RemoveMockData(db, table_names)
  /\ removeCalls' = removeCalls + 1
  /\ pc' = "process_outputs"
  /\ UNCHANGED <<modelCalls, fs, projectInputs, run_type, cases, idx, cwd, mock_data,
                 table_names, err, fs0, model>>

\* test_snapshots lines 125-131 and copy_outputs
CaptureOutputs ==
  /\ pc = "process_outputs"
  /\ run_type \in {"create", "update"}
  /\ IF ~fs[cur].expected.exists
     THEN \* shutil.rmtree(dst) on a missing folder
          /\ pc' = "raised"
          /\ err' = "FileNotFoundError(rmtree ExpectedOutputs)"
          /\ UNCHANGED fs
     ELSE /\ fs' = [fs EXCEPT ![cur].expected =
                      CopyOutputs(fs[cur].outputs, fs[cur].expected)]
          /\ pc' = "final_rmtree"
          /\ UNCHANGED err
  /\ UNCHANGED <<projectInputs, db, run_type, cases, idx, cwd, mock_data,
                 table_names, removeCalls, modelCalls, fs0, model>>

\* test_snapshots lines 133-138 and compare_outputs: every file passes
CompareOk ==
  /\ pc = "process_outputs"
  /\ run_type = "compare"
  /\ FailingFiles(fs[cur].outputs, fs[cur].expected) = {}
  /\ pc' = "final_rmtree"
  /\ UNCHANGED <<fs, projectInputs, db, run_type, cases, idx, cwd, mock_data,
                 table_names, removeCalls, modelCalls, err, fs0, model>>

\* compare_outputs lines 330-335: assert_file raises on some file
CompareFail ==
  /\ pc = "process_outputs"
  /\ run_type = "compare"
  /\ \E p \in FirstFailures(fs[cur].outputs, fs[cur].expected) :
       IF ~fs[cur].outputs.exists
       THEN /\ err' = "FileNotFoundError(rmtree Outputs)"
            /\ UNCHANGED fs
       ELSE /\ err' = assert_file(fs[cur].outputs, fs[cur].expected, p)
            /\ fs' = [fs EXCEPT ![cur].outputs = NoDir]
  /\ pc' = "raised"
  /\ UNCHANGED <<projectInputs, db, run_type, cases, idx, cwd, mock_data,
                 table_names, removeCalls, modelCalls, fs0, model>>

\* test_snapshots lines 140-143: remove the Outputs folder, next case
FinalRmtree ==
  /\ pc = "final_rmtree"
  /\ IF ~fs[cur].outputs.exists
     THEN /\ pc' = "raised"
          /\ err' = "FileNotFoundError(rmtree Outputs)"
          /\ UNCHANGED <<fs, idx>>
     ELSE /\ fs' = [fs EXCEPT ![cur].outputs = NoDir]
          /\ idx' = idx + 1
          /\ pc' = "loop"
          /\ UNCHANGED err
  /\ UNCHANGED <<projectInputs, db, run_type, cases, cwd, mock_data,
                 table_names, removeCalls, modelCalls, fs0, model>>

Next ==
  \/ Call
  \/ Finish
  \/ BeginCase
  \/ AddTableOk
  \/ AddTableFail
  \/ Rollback
  \/ DumpReturn
  \/ CopyInputs
  \/ RunModel
  \/ ExceptRemove
  \/ ExceptRmtree
  \/ ExceptRaise
  \/ ElseRemove
  \/ CaptureOutputs
  \/ CompareOk
  \/ CompareFail
  \/ FinalRmtree

Spec == Init /\ [][Next]_vars

\* ================================================================ claims
Numbers(f) == { ParseCaseNumber(c) : c \in DOMAIN f }
StagedCount(inputs) == IF inputs.hasDb THEN Len(inputs.manifest) ELSE 0
ComparisonErrors == {"FileNotFoundError", "AssertionError", "KeyError", "ValueError"}
CaptureError == "FileNotFoundError(rmtree ExpectedOutputs)"

\* C1: when a case run has ended (the loop is back at its head, the run is
\* done, or an error has reached the caller) no mock table is left in the
\* database.
C1_NoMockTableOutlivesRun ==
  pc \in {"loop", "done", "raised"} => db = {}

C1_Witness ==
  /\ pc = "raised"
  /\ err \in {"ModelError"} \cup ComparisonErrors
  /\ Len(table_names) >= 1

\* C2: staging is all-or-nothing: when add_table fails, the error reaches the
\* caller with no table of the batch in the database and the model not run;
\* when no insertion fails, exactly the tables of the manifest are present,
\* one per entry and in the order of the manifest, and they are the list
\* returned.
C2_StagingAllOrNothing ==
  /\ (pc = "raised" /\ err = "AddTableError") =>
        /\ db = {}
        /\ modelCalls = 0
        /\ ~fs[cur].outputs.exists
  /\ pc = "after_dump" =>
        LET n == StagedCount(fs[cur].inputs)
        IN /\ Len(table_names) = n
           /\ Cardinality(db) = Len(table_names)
           /\ db = { table_names[i] : i \in 1..Len(table_names) }
           /\ \A i \in 1..Len(table_names) :
                table_names[i].base = fs[cur].inputs.manifest[i]

C2_Witness ==
  /\ pc = "raised"
  /\ err = "AddTableError"
  /\ Len(table_names) >= 1
  /\ Len(table_names) < Len(mock_data)

\* C3 (as claimed): whenever a model exception, a comparison failure or a
\* failure while capturing outputs reaches the caller, the case's Outputs/
\* folder does not exist.
C3_FailureRemovesOutputs ==
  (pc = "raised" /\ err \in {"ModelError", CaptureError} \cup ComparisonErrors)
    => ~fs[cur].outputs.exists

\* C4 (as claimed): a create run whose model returns normally, with the
\* project's Inputs folder present, completes and leaves the new case with an
\* ExpectedOutputs/ folder (the first half of the round trip).
C4_CreateCompletes ==
  (run_type = "create" /\ model.ok /\ projectInputs.exists /\ pc \in {"done", "raised"})
    => /\ pc = "done"
       /\ fs[cases[1]].expected.exists

\* C5 (as claimed): when an error reaches the caller, the Case directories and
\* their Inputs/ and ExpectedOutputs/ trees are as they were when
\* test_snapshots was called.
Fixture(f) == [c \in DOMAIN f |-> [inputs |-> f[c].inputs, expected |-> f[c].expected]]
C5_FailedRunLeavesFixture ==
  pc = "raised" => Fixture(fs) = Fixture(fs0)

\* C6: in a case run that reaches the model call, remove_mock_data_from_db is
\* called exactly once: not before the model call, once when the model has
\* returned or raised, and never again; after a model exception the tables are
\* gone before Outputs/ is deleted, Outputs/ is gone before the re-raise, and
\* the exception that reaches the caller is the model's.
C6_CleanupExactlyOnce ==
  /\ pc \in {"run_model", "else_remove", "except_remove"} => removeCalls = 0
  /\ pc \in {"except_rmtree", "except_raise", "process_outputs", "final_rmtree"} =>
        removeCalls = 1 /\ db = {}
  /\ pc = "except_raise" => ~fs[cur].outputs.exists
  /\ (pc = "raised" /\ modelCalls = 1) => removeCalls = 1
  /\ (pc = "raised" /\ modelCalls = 1 /\ ~model.ok) => err = "ModelError"
  /\ (pc \in {"loop", "done"} /\ idx > 1) => removeCalls = 1 /\ modelCalls = 1

C6_Witness ==
  /\ pc = "except_raise"
  /\ Len(table_names) >= 1
  /\ model.out.exists

\* The format-specific agreement of the actual and the expected file at p
FilesAgree(out, exp, p) ==
  /\ p \in DOMAIN out.files
  /\ CASE p.suffix = ".json" -> out.files[p] = exp.files[p]
       [] p.suffix \in {".csv", ".npz"} ->
            /\ out.files[p].keys = exp.files[p].keys
            /\ out.files[p].val - exp.files[p].val \in
                 (0 - ABSOLUTE_TOLERANCE)..ABSOLUTE_TOLERANCE
       [] OTHER -> FALSE

\* C7 (as claimed): compare_outputs returns without raising only if every file
\* under ExpectedOutputs/, of any suffix, has an actual file at the same
\* relative path that agrees with it.
C7_EveryExpectedFileHasCounterpart ==
  (run_type = "compare" /\ pc = "final_rmtree") =>
    \A p \in DOMAIN fs[cur].expected.files :
      FilesAgree(fs[cur].outputs, fs[cur].expected, p)

\* C7 (amended): compare_outputs returns without raising only if every file
\* under ExpectedOutputs/ whose suffix is not .html has an actual file at the
\* same relative path that agrees with it; an expected .html file is skipped.
C7_EveryCheckedFileHasCounterpart ==
  (run_type = "compare" /\ pc = "final_rmtree") =>
    \A p \in DOMAIN fs[cur].expected.files :
      p.suffix # ".html" => FilesAgree(fs[cur].outputs, fs[cur].expected, p)

C7_Witness ==
  /\ run_type = "compare"
  /\ pc = "final_rmtree"
  /\ \E p \in DOMAIN fs[cur].expected.files :
       /\ p \in DOMAIN fs[cur].outputs.files
       /\ fs[cur].outputs.files[p] # fs[cur].expected.files[p]

\* C8: the case that create makes has the smallest positive number that no
\* case directory had, its name has two digits at least, and no directory of
\* that name existed before the call.
C8_GapFillingNumbering ==
  run_type = "create" =>
    LET k == ParseCaseNumber(cases[1])
    IN /\ Len(cases) = 1
       /\ k >= 1
       /\ k \notin Numbers(fs0)
       /\ \A j \in 1..(k - 1) : j \in Numbers(fs0)
       /\ Len(cases[1]) >= 2
       /\ cases[1] \notin DOMAIN fs0
       /\ cases[1] \in DOMAIN fs

C8_Witness ==
  /\ run_type = "create"
  /\ Numbers(fs0) = {1, 3}
  /\ ParseCaseNumber(cases[1]) = 2

\* The files of a tree that copy_outputs is to persist
Persisted(files) == { p \in DOMAIN files : p.suffix # ".html" }

\* C9: when copy_outputs has returned in a create or update run, and in every
\* case the run has finished, ExpectedOutputs/ holds exactly the files of the
\* run's Outputs/ whose suffix is not .html, with the same contents: nothing of
\* the previous baseline survives and no .html file is persisted.
C9_CaptureOverwritesBaseline ==
  run_type \in {"create", "update"} =>
    /\ pc = "final_rmtree" =>
         /\ fs[cur].expected.exists
         /\ DOMAIN fs[cur].expected.files = Persisted(fs[cur].outputs.files)
         /\ \A p \in DOMAIN fs[cur].expected.files :
              fs[cur].expected.files[p] = fs[cur].outputs.files[p]
    /\ pc \in {"loop", "done"} =>
         \A i \in 1..(idx - 1) :
           /\ fs[cases[i]].expected.exists
           /\ DOMAIN fs[cases[i]].expected.files = Persisted(model.out.files)
           /\ \A p \in DOMAIN fs[cases[i]].expected.files :
                fs[cases[i]].expected.files[p] = model.out.files[p]

C9_Witness ==
  /\ run_type = "update"
  /\ pc = "done"
  /\ Len(cases) >= 1
  /\ \E p \in DOMAIN fs0[cases[1]].expected.files : p \notin DOMAIN model.out.files
  /\ \E p \in DOMAIN model.out.files : p.suffix = ".html"

\* C10 (as claimed): in every run type the model starts only when a table is
\* in the database for every entry of the case's _Database.json manifest, and
\* no staged table is left when copy_outputs or compare_outputs begins.
C10_ModelStartsAfterStaging ==
  /\ pc = "run_model" =>
       /\ Len(table_names) = StagedCount(fs[cur].inputs)
       /\ { t.base : t \in db } = { fs[cur].inputs.manifest[i] :
                                      i \in 1..StagedCount(fs[cur].inputs) }
  /\ pc = "process_outputs" => db = {}

====
